---- MODULE Spec2Model ----
(***************************************************************************)
(* State-machine model of the portfolio site's coordination layer:         *)
(* PortfolioApp (js/main.js), TerminalUI, SceneManager, ScrollController,  *)
(* MobileController and AccessibilityManager (js/modules).                 *)
(*                                                                         *)
(* One variable per object, holding that object's fields as a record; one  *)
(* action per browser event, timer or promise continuation.  A browser     *)
(* event runs every listener registered for it, in the browser's dispatch  *)
(* order (target, then document in registration order, then window), as    *)
(* one atomic step: JavaScript runs each task to completion.               *)
(*                                                                         *)
(* Strings are sequences of one-character strings, so that trim, split and *)
(* toLowerCase are computed.  Scroll progress is kept in hundredths        *)
(* (ProgressScale), the resolution of the smallest scroll step (0.01).     *)
(* Rendering (three.js), tweening internals (anime.js), the terminal hint  *)
(* text and CSS are outside the model.                                     *)
(***************************************************************************)
EXTENDS Integers, Sequences, FiniteSets, TLC

VARIABLES app, doc, win, terminalUI, sceneManager, scrollController,
          mobileController, accessibilityManager, touch, ev

vars == <<app, doc, win, terminalUI, sceneManager, scrollController,
          mobileController, accessibilityManager, touch, ev>>

----------------------------------------------------------------------------
(* Strings                                                                 *)

LowerLetters == <<"a","b","c","d","e","f","g","h","i","j","k","l","m",
                  "n","o","p","q","r","s","t","u","v","w","x","y","z">>
UpperLetters == <<"A","B","C","D","E","F","G","H","I","J","K","L","M",
                  "N","O","P","Q","R","S","T","U","V","W","X","Y","Z">>

WhiteSpace == {" ", "\t"}

toLowerCaseChar(c) ==
    IF \E i \in 1..Len(UpperLetters) : UpperLetters[i] = c
    THEN LowerLetters[CHOOSE i \in 1..Len(UpperLetters) : UpperLetters[i] = c]
    ELSE c

toUpperCaseChar(c) ==
    IF \E i \in 1..Len(LowerLetters) : LowerLetters[i] = c
    THEN UpperLetters[CHOOSE i \in 1..Len(LowerLetters) : LowerLetters[i] = c]
    ELSE c

toLowerCase(s) == [i \in 1..Len(s) |-> toLowerCaseChar(s[i])]

toUpperCase(s) == [i \in 1..Len(s) |-> toUpperCaseChar(s[i])]

RECURSIVE trimStart(_)
trimStart(s) ==
    IF s # <<>> /\ Head(s) \in WhiteSpace THEN trimStart(Tail(s)) ELSE s

RECURSIVE trimEnd(_)
trimEnd(s) ==
    IF s # <<>> /\ s[Len(s)] \in WhiteSpace
    THEN trimEnd(SubSeq(s, 1, Len(s) - 1)) ELSE s

trim(s) == trimEnd(trimStart(s))

\* String.prototype.split(sep) for a one-character separator: the pieces
\* between separators, empty pieces included.
RECURSIVE splitFrom(_, _, _)
splitFrom(s, sep, piece) ==
    IF s = <<>> THEN <<piece>>
    ELSE IF Head(s) = sep THEN <<piece>> \o splitFrom(Tail(s), sep, <<>>)
    ELSE splitFrom(Tail(s), sep, Append(piece, Head(s)))

split(s, sep) == splitFrom(s, sep, <<>>)

----------------------------------------------------------------------------
(* Names used as string values                                             *)

help     == <<"h","e","l","p">>
clear    == <<"c","l","e","a","r">>
tour     == <<"t","o","u","r">>
about    == <<"a","b","o","u","t">>
projects == <<"p","r","o","j","e","c","t","s">>
contact  == <<"c","o","n","t","a","c","t">>
resume   == <<"r","e","s","u","m","e">>
theme    == <<"t","h","e","m","e">>
whoami   == <<"w","h","o","a","m","i">>
ls       == <<"l","s">>
pwd      == <<"p","w","d">>

----------------------------------------------------------------------------
(* Bounds of the model                                                     *)

\* Entries of #terminal-output the model keeps (the most recent ones).
MaxOutput == 2

\* Commands entered in one run of the terminal.
MaxHistory == 2

\* Pending timers of one kind.
MaxTimers == 2

\* keydown listeners registered on document.
MaxListeners == 5

\* Windows opened by window.open.
MaxOpened == 2

\* Touches (first finger down to last finger up) in one run, and
\* touchmove events in one touch.
MaxTouches == 1
MaxMoves == 2

----------------------------------------------------------------------------
(* The world: every object's fields, and the record of the running task   *)

\* What the task being run has done so far: the 'command' events that
\* reached PortfolioApp.handleTerminalCommand, the listeners that threw,
\* the calls of note (processGesture, navigateToSection, ...) and the
\* number of entries written to #terminal-output; prevented: a listener
\* of a Tab keydown called event.preventDefault().
NoRun == [delivered |-> <<>>, thrown |-> FALSE, errors |-> <<>>,
          calls |-> <<>>, written |-> 0, prevented |-> FALSE]

World == [app |-> app, doc |-> doc, win |-> win, terminalUI |-> terminalUI,
          sceneManager |-> sceneManager,
          scrollController |-> scrollController,
          mobileController |-> mobileController,
          accessibilityManager |-> accessibilityManager, touch |-> touch,
          run |-> NoRun]

Commit(w, e) ==
    /\ app' = w.app
    /\ doc' = w.doc
    /\ win' = w.win
    /\ terminalUI' = w.terminalUI
    /\ sceneManager' = w.sceneManager
    /\ scrollController' = w.scrollController
    /\ mobileController' = w.mobileController
    /\ accessibilityManager' = w.accessibilityManager
    /\ touch' = w.touch
    /\ ev' = e

throw(w) == [w EXCEPT !.run.thrown = TRUE]

noteCall(w, c) == [w EXCEPT !.run.calls = Append(@, c)]

\* setTimeout(callback, delay): one more pending timer of this kind.
setTimeout(w, kind, arg) ==
    [w EXCEPT !.win.timers[[kind |-> kind, arg |-> arg]] = @ + 1]

\* A timer whose callback does the same whatever the number of pending
\* copies (focusInput; the scroll-end timer, which clearTimeout replaces).
setSingleTimeout(w, kind) ==
    [w EXCEPT !.win.timers[[kind |-> kind, arg |-> ""]] = 1]

Pending(kind, arg) == win.timers[[kind |-> kind, arg |-> arg]] > 0

timerFired(w, kind, arg) ==
    [w EXCEPT !.win.timers[[kind |-> kind, arg |-> arg]] = @ - 1]

----------------------------------------------------------------------------
(* TerminalUI                                                              *)

\* The keys of the commands Map, in insertion order.
commands == <<help, clear, tour, about, projects, contact, resume, theme,
              whoami, ls, pwd>>

commandsHas(name) == \E i \in 1..Len(commands) : commands[i] = name

\* One entry of #terminal-output.  A block of lines written by one
\* showResponse call is one entry.
\* The program only ever appends to #terminal-output or empties it, and
\* never reads it: the model keeps its last MaxOutput entries.
lastEntries(s) ==
    IF Len(s) > MaxOutput THEN SubSeq(s, Len(s) - MaxOutput + 1, Len(s))
    ELSE s

addOutputLine(w, kind, arg) ==
    [w EXCEPT !.terminalUI.output =
                  lastEntries(Append(@, [kind |-> kind, arg |-> arg])),
              !.run.written = @ + 1]

showResponse(w, kind) == addOutputLine(w, kind, <<>>)

showError(w, kind, arg) ==
    addOutputLine(noteCall(w, <<"showError", kind>>), kind, arg)

\* The focusable elements a page can have: #terminal-input inside
\* #terminal-overlay, the canvas and a control button inside
\* #canvas-container, and a link outside both.  Region is what
\* element.closest('#terminal-overlay') / closest('#canvas-container') find.
Region(el) ==
    IF el = "input" THEN "terminal"
    ELSE IF el \in {"canvas", "control"} THEN "canvas"
    ELSE "page"

\* Array.prototype.indexOf, with the first element at index 0.
indexOf(s, x) ==
    IF \E i \in 1..Len(s) : s[i] = x
    THEN (CHOOSE i \in 1..Len(s) :
              s[i] = x /\ \A j \in 1..(i - 1) : s[j] # x) - 1
    ELSE -1

\* The focusin listeners of document, in registration order:
\* handleFocusIn (setupKeyboardNavigation), then the focus indicator of
\* setupFocusIndicators.
handleFocusIn(w, target) ==
    IF ~w.accessibilityManager.listening THEN w
    ELSE [w EXCEPT !.accessibilityManager.currentFocusIndex =
                       indexOf(w.accessibilityManager.focusableElements,
                               target),
                   !.doc.focusVisible =
                       w.accessibilityManager.isKeyboardNavigation]

\* The focused element loses the focus: the focusout listener of
\* setupFocusIndicators removes 'accessibility-focus-visible', and the
\* blur listener of #terminal-input (handleBlur) arms its 100 ms timer.
handleFocusOut(w) ==
    LET w1 == [w EXCEPT !.doc.focusVisible = FALSE] IN
    IF w.doc.focus = "input" THEN setSingleTimeout(w1, "focusInput")
    ELSE w1

\* element.focus(): nothing happens when the element has the focus.
focusElement(w, el) ==
    IF w.doc.focus = el THEN w
    ELSE handleFocusIn([handleFocusOut(w) EXCEPT !.doc.focus = el], el)

\* The focus goes back to body (no focusin is dispatched).
blurElement(w) ==
    IF w.doc.focus = "body" THEN w
    ELSE [handleFocusOut(w) EXCEPT !.doc.focus = "body"]

\* The mousedown listener detectScreenReader registers.
mousedown(w) ==
    IF w.accessibilityManager.keyTracking
    THEN [w EXCEPT !.accessibilityManager.isKeyboardNavigation = FALSE]
    ELSE w

\* this.input.focus() moves the focus only while #terminal-input is part
\* of the document.
focusInput(w) ==
    IF ~w.terminalUI.isMinimized /\ w.terminalUI.dom /\ w.doc.terminalDom
    THEN focusElement(w, "input")
    ELSE w

\* addPromptLine arms a 50 ms timer that calls focusInput.  focusInput is
\* idempotent, so pending timers of this kind are kept as one.
addPromptLine(w) == setSingleTimeout(w, "focusInput")

clearInput(w) ==
    addPromptLine([w EXCEPT !.terminalUI.inputValue = <<>>,
                            !.terminalUI.currentLine = <<>>])

terminalClear(w) == [w EXCEPT !.terminalUI.output = <<>>]

minimize(w) ==
    LET w1 == [w EXCEPT !.terminalUI.isMinimized = TRUE] IN
    IF ~w.terminalUI.dom THEN throw(w1)   \* this.overlay is null
    ELSE setTimeout(w1, "restoreHint", "")

restore(w) ==
    focusInput([w EXCEPT !.terminalUI.isMinimized = FALSE])

\* The 2000 ms timer armed by minimize.
showRestoreHint(w) ==
    [w EXCEPT !.doc.keydown = Append(@, "restoreHandler")]

RECURSIVE removeFirst(_, _)
removeFirst(s, x) ==
    IF s = <<>> THEN <<>>
    ELSE IF Head(s) = x THEN Tail(s)
    ELSE <<Head(s)>> \o removeFirst(Tail(s), x)

restoreHandler(w) ==
    IF w.terminalUI.isMinimized
    THEN LET w1 == restore(w) IN
         [w1 EXCEPT !.doc.keydown = removeFirst(@, "restoreHandler")]
    ELSE w

handleInput(w, value) ==
    [w EXCEPT !.terminalUI.inputValue = value,
              !.terminalUI.currentLine = value]

----------------------------------------------------------------------------
(* SceneManager                                                            *)

Min(a, b) == IF a < b THEN a ELSE b
Max(a, b) == IF a > b THEN a ELSE b
Abs(a) == IF a < 0 THEN -a ELSE a

\* Scroll progress 1.0 in the model's unit (hundredths).
ProgressScale == 100

\* The timeline's duration in ms: every child tween lasts 1000 ms and
\* starts at offset 0.
TimelineDuration == 1000

\* NaN, the number that no comparison holds for and that every arithmetic
\* operation passes on; kept as an integer no computation here produces.
NaN == 1000000

isNaN(v) == v = NaN

\* Math.max(0, Math.min(1, v)): Math.min and Math.max return NaN when an
\* argument is NaN.
clamp01(v) == IF isNaN(v) THEN NaN ELSE Max(0, Min(ProgressScale, v))

\* The .then callback of the dynamic import of anime.js.
setupDisassemblyAnimation(w) ==
    [w EXCEPT !.sceneManager.anime = TRUE,
              !.sceneManager.disassemblyTimeline =
                  [created |-> TRUE, currentTime |-> 0]]

sceneUpdateScrollProgress(w, progress) ==
    LET p == clamp01(progress)
        w1 == [w EXCEPT !.sceneManager.scrollProgress = p]
    IN  IF w.sceneManager.disassemblyTimeline.created /\ w.sceneManager.anime
        THEN [w1 EXCEPT !.sceneManager.disassemblyTimeline.currentTime =
                            IF isNaN(p) THEN NaN
                            ELSE (p * TimelineDuration) \div ProgressScale]
        ELSE w1

enterTourMode(w) == [w EXCEPT !.sceneManager.isTourMode = TRUE]

sceneExitTourMode(w) == [w EXCEPT !.sceneManager.isTourMode = FALSE]

----------------------------------------------------------------------------
(* ScrollController                                                        *)

IDLE == 0
OPENING == 1
DISASSEMBLING == 2
COMPLETE == 3

getPhaseFromProgress(progress) ==
    IF isNaN(progress) THEN COMPLETE
    ELSE IF progress < 10 THEN IDLE
    ELSE IF progress < 30 THEN OPENING
    ELSE IF progress < 90 THEN DISASSEMBLING
    ELSE COMPLETE

\* handleCompletePhase arms the 1000 ms timer of showNavigationOptions; the
\* other phase handlers only write the terminal hint.
onPhaseChange(w, oldPhase, newPhase) ==
    IF newPhase = COMPLETE THEN setTimeout(w, "navigationOptions", "") ELSE w

updatePhase(w) ==
    LET newPhase == getPhaseFromProgress(w.scrollController.scrollProgress) IN
    IF newPhase # w.scrollController.currentPhase
    THEN [onPhaseChange(w, w.scrollController.currentPhase, newPhase)
              EXCEPT !.scrollController.currentPhase = newPhase]
    ELSE w

updateScrollProgress(w, delta) ==
    LET progress == w.scrollController.scrollProgress
        p == clamp01(IF isNaN(progress) THEN NaN ELSE progress + delta)
        w1 == [w EXCEPT !.scrollController.scrollProgress = p]
    IN  updatePhase(sceneUpdateScrollProgress(w1, p))

\* A setScrollProgress that does not pass the value on to the scene.
setScrollProgressWithoutScene(w, value) ==
    updatePhase([w EXCEPT !.scrollController.scrollProgress = clamp01(value)])

setScrollProgress(w, value) ==
    LET p == clamp01(value)
        w1 == [w EXCEPT !.scrollController.scrollProgress = p]
    IN  updatePhase(sceneUpdateScrollProgress(w1, p))

handleScrollEvent(w) ==
    setSingleTimeout([w EXCEPT !.scrollController.isScrolling = TRUE],
                     "scrollEnd")

phaseProgresses == <<0, 25, 65, 100>>

snapThreshold == 5

RECURSIVE snapFrom(_, _)
snapFrom(w, i) ==
    IF i > Len(phaseProgresses) THEN w
    ELSE IF /\ ~isNaN(w.scrollController.scrollProgress)
            /\ Abs(w.scrollController.scrollProgress - phaseProgresses[i])
                 < snapThreshold
    THEN setScrollProgress(w, phaseProgresses[i])
    ELSE snapFrom(w, i + 1)

snapToPhase(w) == snapFrom(w, 1)

\* The 150 ms timer armed by handleScrollEvent.
onScrollEnd(w) ==
    snapToPhase([w EXCEPT !.scrollController.isScrolling = FALSE])

handleWheel(w, deltaY) ==
    handleScrollEvent(updateScrollProgress(w, IF deltaY > 0 THEN 2 ELSE -2))

\* touchStartY is null, undefined or a clientY; the code only tests it for
\* falsiness and subtracts from it, so null and undefined are kept as 0.
scHandleTouchStart(w, clientY) ==
    [w EXCEPT !.scrollController.touchStartY = clientY,
              !.scrollController.isScrolling = FALSE]

scHandleTouchMove(w, touchY) ==
    IF w.scrollController.touchStartY = 0 THEN w
    ELSE LET deltaY == w.scrollController.touchStartY - touchY
             delta == IF deltaY > 0 THEN 1 ELSE -1
         IN  IF Abs(deltaY) > 10
             THEN handleScrollEvent(updateScrollProgress(w, delta))
             ELSE w

scHandleTouchEnd(w) == [w EXCEPT !.scrollController.touchStartY = 0]

\* A handleKeyboard whose switch has no case for the space key.
handleKeyboardWithoutSpace(w, key) ==
    IF key \in {"ArrowDown", "PageDown"}
    THEN handleScrollEvent(updateScrollProgress(w, 10))
    ELSE IF key \in {"ArrowUp", "PageUp"}
    THEN handleScrollEvent(updateScrollProgress(w, -10))
    ELSE IF key = "Home" THEN handleScrollEvent(setScrollProgress(w, 0))
    ELSE IF key = "End"
    THEN handleScrollEvent(setScrollProgress(w, ProgressScale))
    ELSE w

handleKeyboard(w, key) ==
    IF key \in {"ArrowDown", "PageDown", " "}
    THEN handleScrollEvent(updateScrollProgress(w, 10))
    ELSE IF key \in {"ArrowUp", "PageUp"}
    THEN handleScrollEvent(updateScrollProgress(w, -10))
    ELSE IF key = "Home" THEN handleScrollEvent(setScrollProgress(w, 0))
    ELSE IF key = "End"
    THEN handleScrollEvent(setScrollProgress(w, ProgressScale))
    ELSE w

NoAnimation == [active |-> FALSE, elapsed |-> 0, startProgress |-> 0,
                targetProgress |-> 0]

\* animateToProgress(targetProgress): the promise executor, which records
\* where the animation starts and requests the first frame.
animateToProgress(w, targetProgress) ==
    [w EXCEPT !.scrollController.anim =
                  [active |-> TRUE, elapsed |-> 0,
                   startProgress |-> w.scrollController.scrollProgress,
                   targetProgress |-> targetProgress]]

scrollToPhase(w, phase) ==
    IF phase \in 0..3 THEN animateToProgress(w, phaseProgresses[phase + 1])
    ELSE w

scrollToNext(w) ==
    scrollToPhase(w, Min(w.scrollController.currentPhase + 1, COMPLETE))

scrollToPrevious(w) ==
    scrollToPhase(w, Max(w.scrollController.currentPhase - 1, IDLE))

\* a / b rounded to the nearest integer (b > 0).
RoundDiv(a, b) == (2 * a + b) \div (2 * b)

\* 1 - (1 - progress)^3 in thousandths, for progress in tenths.
easeOutCubic(tenths) == 1000 - (10 - tenths) * (10 - tenths) * (10 - tenths)

\* One requestAnimationFrame callback of animateToProgress, `elapsed`
\* tenths of the duration after its start.
animate(w, elapsed) ==
    LET a == w.scrollController.anim
        progress == Min(elapsed, 10)
        eased == easeOutCubic(progress)
        currentProgress ==
            IF isNaN(a.startProgress) THEN NaN
            ELSE a.startProgress
                   + RoundDiv((a.targetProgress - a.startProgress) * eased,
                              1000)
        w1 == [setScrollProgress(w, currentProgress)
                  EXCEPT !.scrollController.anim.elapsed = progress]
    IN  IF progress < 10 THEN w1
        ELSE [w1 EXCEPT !.scrollController.anim = NoAnimation]

----------------------------------------------------------------------------
(* PortfolioApp                                                            *)

\* obj[key] on an object literal: an own property, else a member inherited
\* from Object.prototype (a function or object, which is truthy), else
\* undefined.
ObjectPrototypeKeys == {"constructor", "toString", "valueOf",
                        "hasOwnProperty", "__proto__"}

Undefined == "undefined"

Inherited == "[Object.prototype member]"

lookup(own, key) ==
    IF key \in DOMAIN own THEN own[key]
    ELSE IF key \in ObjectPrototypeKeys THEN Inherited
    ELSE Undefined

urls == [about |-> "/about.html", projects |-> "/projects.html",
         contact |-> "/contact.html", resume |-> "/resume.pdf"]

sectionMap == [screen |-> "projects", keyboard |-> "about",
               ports |-> "contact", battery |-> "resume"]

navigateToSection(w, section) ==
    LET url == lookup(urls, section)
        w0 == noteCall(w, <<"navigateToSection", section>>)
    IN  IF url # Undefined
        THEN setTimeout(addOutputLine(w0, "navigating", <<section>>),
                        "navigate", section)
        ELSE w0

\* The 1000 ms timer armed by navigateToSection.
navigate(w, section) ==
    LET url == lookup(urls, section) IN
    IF section = "resume"
    THEN [w EXCEPT !.win.opened = @ + 1]          \* window.open(url, '_blank')
    ELSE [w EXCEPT !.win.location = url]          \* window.location.href = url

startTourMode(w) ==
    LET w1 == enterTourMode(w)
        w2 == [w1 EXCEPT !.doc.bodyClasses = @ \cup {"terminal-tour-mode"}]
    IN  showResponse(w2, "tourActivated")

exitTourMode(w) ==
    LET w1 == sceneExitTourMode(w)
        w2 == [w1 EXCEPT !.doc.bodyClasses = @ \ {"terminal-tour-mode"}]
    IN  showResponse(w2, "tourDeactivated")

\* command is the string the terminal emitted (a sequence of characters).
handleTerminalCommand(w, command, args) ==
    LET w0 == [w EXCEPT !.run.delivered = Append(@, command)] IN
    IF command = help THEN showResponse(w0, "appHelp")
    ELSE IF command = tour THEN startTourMode(w0)
    ELSE IF command = about THEN navigateToSection(w0, "about")
    ELSE IF command = projects THEN navigateToSection(w0, "projects")
    ELSE IF command = contact THEN navigateToSection(w0, "contact")
    ELSE IF command = resume THEN navigateToSection(w0, "resume")
    ELSE IF command = clear THEN terminalClear(w0)
    ELSE IF command = theme THEN showResponse(w0, "theme")
    ELSE \* default: showError, then this.terminalUI.showHelp(), which
         \* TerminalUI does not define: a TypeError.
         throw(showError(w0, "commandNotFound", command))

\* The camera tween of focusOnPart is not modelled.
handlePartClick(w, partName) ==
    LET section == lookup(sectionMap, partName)
        w0 == noteCall(w, <<"handlePartClick", partName>>)
    IN  IF section # Undefined THEN setTimeout(w0, "partClick", section)
        ELSE w0

\* EventEmitter.emit: every listener registered with on(), called in turn.
\* Whether emit lets a listener's exception out or catches it is the
\* emitter's choice, fixed when the page loads (app.emitterCatches).
emit(w, event, a, b) ==
    LET r == IF event \notin w.app.listeners THEN w
             ELSE IF event = "command" THEN handleTerminalCommand(w, a, b)
             ELSE IF event = "partClick" THEN handlePartClick(w, a)
             ELSE w
    IN  IF r.run.thrown /\ ~w.run.thrown /\ w.app.emitterCatches
        THEN [r EXCEPT !.run.thrown = FALSE]
        ELSE r

----------------------------------------------------------------------------
(* TerminalUI: commands                                                    *)

\* commandObj.execute(args) for the command stored under `name`.
execute(w, name, args) ==
    IF name = help THEN showResponse(w, "help")
    ELSE IF name = clear THEN terminalClear(w)
    ELSE IF name \in {tour, about, projects, contact, resume}
    THEN emit(w, "command", name, <<>>)
    ELSE IF name = theme THEN emit(w, "command", theme, args)
    ELSE IF name = whoami THEN showResponse(w, "whoami")
    ELSE IF name = ls THEN showResponse(w, "ls")
    ELSE showResponse(w, "pwd")

executeCommand(w, command, args) ==
    IF commandsHas(command)
    THEN LET r == execute(w, command, args) IN
         IF r.run.thrown
         THEN showError([r EXCEPT !.run.thrown = FALSE], "executeError",
                        command)
         ELSE r
    ELSE emit(w, "command", command, args)

\* A processCommand that looks the command up as typed, in its own case.
processCommandCaseSensitive(w) ==
    LET command == trim(w.terminalUI.currentLine) IN
    IF command = <<>> THEN addPromptLine(w)
    ELSE LET w1 == addOutputLine(w, "command", command)
             w2 == [w1 EXCEPT
                       !.terminalUI.commandHistory = Append(@, command),
                       !.terminalUI.historyIndex =
                           Len(w.terminalUI.commandHistory) + 1]
             parts == split(command, " ")
             w3 == executeCommand(w2, Head(parts), Tail(parts))
         IN  IF w3.run.thrown THEN w3 ELSE clearInput(w3)

processCommand(w) ==
    LET command == trim(w.terminalUI.currentLine) IN
    IF command = <<>> THEN addPromptLine(w)
    ELSE LET w1 == addOutputLine(w, "command", command)
             w2 == [w1 EXCEPT
                       !.terminalUI.commandHistory = Append(@, command),
                       !.terminalUI.historyIndex =
                           Len(w.terminalUI.commandHistory) + 1]
             parts == split(command, " ")
             w3 == executeCommand(w2, toLowerCase(Head(parts)), Tail(parts))
         IN  IF w3.run.thrown THEN w3 ELSE clearInput(w3)

navigateHistory(w, direction) ==
    IF Len(w.terminalUI.commandHistory) = 0 THEN w
    ELSE LET i == Max(-1, Min(w.terminalUI.historyIndex + direction,
                               Len(w.terminalUI.commandHistory) - 1))
             value == IF i >= 0 THEN w.terminalUI.commandHistory[i + 1]
                      ELSE <<>>
         IN  [w EXCEPT !.terminalUI.historyIndex = i,
                       !.terminalUI.inputValue = value,
                       !.terminalUI.currentLine = value]

\* A cancel that prints ^C and leaves the line as typed.
cancelCurrentCommandKeepLine(w) ==
    addPromptLine(addOutputLine(w, "^C", <<>>))

cancelCurrentCommand(w) ==
    addPromptLine(addOutputLine(clearInput(w), "^C", <<>>))

\* A key of the model is event.key, with the prefix "Shift+" when
\* event.shiftKey is set on a Tab.
isTab(key) == key \in {"Tab", "Shift+Tab"}

shiftKey(key) == key = "Shift+Tab"

preventDefault(w) == [w EXCEPT !.run.prevented = TRUE]

startsWith(s, prefix) ==
    Len(prefix) <= Len(s) /\ SubSeq(s, 1, Len(prefix)) = prefix

handleTabCompletion(w) ==
    LET partial == toLowerCase(w.terminalUI.currentLine)
        matches == SelectSeq(commands, LAMBDA cmd : startsWith(cmd, partial))
    IN  IF Len(matches) = 1
        THEN [w EXCEPT !.terminalUI.inputValue = matches[1],
                       !.terminalUI.currentLine = matches[1]]
        ELSE IF Len(matches) > 1 THEN showResponse(w, "completions")
        ELSE w

\* The keydown listener of #terminal-input.
terminalHandleKeyDown(w, key, ctrlKey) ==
    IF key = "Enter" THEN processCommand(w)
    ELSE IF key = "ArrowUp" THEN navigateHistory(w, -1)
    ELSE IF key = "ArrowDown" THEN navigateHistory(w, 1)
    ELSE IF isTab(key) THEN handleTabCompletion(preventDefault(w))
    ELSE IF key = "Escape" THEN minimize(w)
    ELSE IF key = "c" /\ ctrlKey THEN cancelCurrentCommand(w)
    ELSE w

----------------------------------------------------------------------------
(* Keyboard events                                                         *)

\* AccessibilityManager.handleEscapeKey; announce() only writes the ARIA
\* live region.
handleEscapeKey(w) ==
    IF ~w.win.portfolioApp THEN w
    ELSE IF "sceneManager" \in w.app.modules /\ w.sceneManager.isTourMode
    THEN sceneExitTourMode(w)
    ELSE IF "terminalUI" \in w.app.modules /\ ~w.terminalUI.isMinimized
    THEN minimize(w)
    ELSE w

navigateToNextInteractiveElement(w, reverse) ==
    LET am == w.accessibilityManager
        length == Len(am.focusableElements)
        stepped == IF am.currentFocusIndex = -1
                   THEN (IF reverse THEN length - 1 ELSE 0)
                   ELSE IF reverse THEN am.currentFocusIndex - 1
                   ELSE am.currentFocusIndex + 1
        nextIndex == IF stepped >= length THEN 0
                     ELSE IF stepped < 0 THEN length - 1
                     ELSE stepped
    IN  IF nextIndex >= 0 /\ nextIndex < length
        THEN [focusElement(w, am.focusableElements[nextIndex + 1])
                 EXCEPT !.accessibilityManager.currentFocusIndex = nextIndex]
        ELSE w   \* focusableElements[nextIndex] is undefined

\* document.activeElement is body when no element has the focus.
handleTabNavigation(w, key) ==
    IF w.doc.focus # "body" /\ Region(w.doc.focus) = "terminal" THEN w
    ELSE IF w.doc.focus # "body" /\ Region(w.doc.focus) = "canvas"
    THEN navigateToNextInteractiveElement(preventDefault(w), shiftKey(key))
    ELSE w

\* handleActivationKey and handleArrowKeys change nothing the model keeps:
\* no focusable element of the page has a role attribute.
handleGlobalKeydown(w, key) ==
    IF isTab(key) THEN handleTabNavigation(w, key)
    ELSE IF key = "Escape" THEN handleEscapeKey(w)
    ELSE w

\* The keydown listener of setupFocusTrap.
focusTrap(w, key) ==
    LET inTerminal == SelectSeq(w.doc.layout,
                                LAMBDA el : Region(el) = "terminal")
    IN  IF isTab(key) /\ w.doc.terminalDom /\ w.doc.focus # "body"
           /\ Region(w.doc.focus) = "terminal" /\ inTerminal # <<>>
        THEN IF shiftKey(key) /\ w.doc.focus = inTerminal[1]
             THEN focusElement(preventDefault(w),
                               inTerminal[Len(inTerminal)])
             ELSE IF ~shiftKey(key)
                     /\ w.doc.focus = inTerminal[Len(inTerminal)]
             THEN focusElement(preventDefault(w), inTerminal[1])
             ELSE w
        ELSE w

\* The keydown listener detectScreenReader registers.
trackKeyboard(w, key) ==
    IF isTab(key)
    THEN [w EXCEPT !.accessibilityManager.isKeyboardNavigation = TRUE]
    ELSE w

\* PortfolioApp.handleKeyDown.  No element of the page carries the class
\* 'clickable-part', so its Enter branch does nothing.
handleKeyDown(w, key) ==
    IF key = "Escape"
    THEN IF w.sceneManager.isTourMode THEN exitTourMode(w) ELSE minimize(w)
    ELSE IF isTab(key) THEN handleTabNavigation(w, key)
    ELSE w

callListener(w, listener, key, ctrlKey) ==
    IF listener = "TerminalUI.handleKeyDown"
    THEN terminalHandleKeyDown(w, key, ctrlKey)
    ELSE IF listener = "AccessibilityManager.handleGlobalKeydown"
    THEN handleGlobalKeydown(w, key)
    ELSE IF listener = "PortfolioApp.handleKeyDown" THEN handleKeyDown(w, key)
    ELSE IF listener = "detectScreenReader.keydown" THEN trackKeyboard(w, key)
    ELSE IF listener = "setupFocusTrap.keydown" THEN focusTrap(w, key)
    ELSE IF listener = "restoreHandler" THEN restoreHandler(w)
    ELSE IF listener = "ScrollController.handleKeyboard"
    THEN handleKeyboard(w, key)
    ELSE w

\* An exception thrown by a listener is reported and the dispatch goes on.
settle(w, listener) ==
    IF w.run.thrown
    THEN [w EXCEPT !.run.thrown = FALSE, !.run.errors = Append(@, listener)]
    ELSE w

RECURSIVE dispatch(_, _, _, _)
dispatch(w, listeners, key, ctrlKey) ==
    IF listeners = <<>> THEN w
    ELSE dispatch(settle(callListener(w, Head(listeners), key, ctrlKey),
                         Head(listeners)),
                  Tail(listeners), key, ctrlKey)

\* The browser's default action for Tab, unless a listener prevented it:
\* the focus moves to the next (Shift: previous) focusable element in
\* document order, and out of the document past its ends.
nativeTab(w, key) ==
    IF ~isTab(key) \/ w.run.prevented THEN w
    ELSE LET length == Len(w.doc.layout)
             index == indexOf(w.doc.layout, w.doc.focus)
             nextIndex == IF shiftKey(key)
                          THEN (IF index = -1 THEN length - 1 ELSE index - 1)
                          ELSE index + 1
         IN  IF nextIndex >= 0 /\ nextIndex < length
             THEN focusElement(w, w.doc.layout[nextIndex + 1])
             ELSE blurElement(w)

\* A keydown event: the listeners of the focused element, then those of
\* document in registration order (as registered when the event is
\* dispatched), then those of window.
keydown(w, key, ctrlKey) ==
    nativeTab(dispatch(w,
                       (IF w.doc.focus = "input" THEN w.doc.inputKeydown
                        ELSE <<>>)
                           \o w.doc.keydown \o w.win.keydown,
                       key, ctrlKey),
              key)

----------------------------------------------------------------------------
(* MobileController                                                        *)

gestureThreshold == 50

\* 0.5 px/ms; the model keeps velocityY in px per second.
swipeVelocityThreshold == 500

mcHandleTouchStart(w, fingers, clientX, clientY) ==
    IF fingers = 1
    THEN [w EXCEPT !.mobileController.touchStartY = clientY,
                   !.mobileController.touchStartX = clientX,
                   !.mobileController.lastTouchY = clientY,
                   !.mobileController.velocityY = 0,
                   !.mobileController.lastTouchTime = TRUE]
    ELSE w

detectSwipeGesture(w, clientX) ==
    LET deltaY == w.mobileController.lastTouchY
                      - w.mobileController.touchStartY
        deltaX == clientX - w.mobileController.touchStartX
    IN  IF Abs(deltaY) > Abs(deltaX) /\ Abs(deltaY) > gestureThreshold
        THEN [w EXCEPT !.mobileController.isGestureActive = TRUE]
        ELSE w

\* deltaTime: the ms since lastTouchTime (Date.now() differences).
\* lastTouchTime is TRUE once the field has been assigned; before that the
\* difference is NaN, and so is velocityY, which processGesture compares
\* like 0 (Math.abs(NaN) > threshold is false).
mcHandleTouchMove(w, fingers, clientX, clientY, deltaTime) ==
    IF fingers = 1
    THEN LET deltaY == clientY - w.mobileController.lastTouchY
             w1 == [w EXCEPT !.mobileController.velocityY =
                                 IF w.mobileController.lastTouchTime
                                 THEN (deltaY * 1000) \div deltaTime
                                 ELSE 0,
                             !.mobileController.lastTouchY = clientY,
                             !.mobileController.lastTouchTime = TRUE]
         IN  detectSwipeGesture(w1, clientX)
    ELSE w

\* showSwipeHint only draws a hint element.
handleSwipeUp(w) ==
    LET w0 == noteCall(w, <<"handleSwipeUp">>) IN
    IF w.win.portfolioApp /\ "scrollController" \in w.app.modules
    THEN scrollToNext(w0) ELSE w0

handleSwipeDown(w) ==
    LET w0 == noteCall(w, <<"handleSwipeDown">>) IN
    IF w.win.portfolioApp /\ "scrollController" \in w.app.modules
    THEN scrollToPrevious(w0) ELSE w0

processGesture(w) ==
    LET w0 == noteCall(w, <<"processGesture">>) IN
    IF Abs(w.mobileController.velocityY) > swipeVelocityThreshold
    THEN IF w.mobileController.velocityY < 0 THEN handleSwipeUp(w0)
         ELSE handleSwipeDown(w0)
    ELSE w0   \* slow swipes only draw a hint

mcHandleTouchEnd(w) ==
    IF w.mobileController.isGestureActive
    THEN [processGesture(w) EXCEPT !.mobileController.isGestureActive = FALSE]
    ELSE w

----------------------------------------------------------------------------
(* SceneManager: pointer interaction                                       *)

\* The objects intersectObjects(laptopParts, true) can return first, each
\* with its own userData.partName and that of its parent (Undefined where
\* there is none).  createLaptopFromPrimitives names the five parts only;
\* 'ports' is a Group, which has no geometry to hit; screenGlow lies
\* inside the screen's box, so a ray reaches the screen first.
HitObjects ==
    { [object |-> "screen",      partName |-> "screen",
                                 parentPartName |-> Undefined],
      [object |-> "keyboard",    partName |-> "keyboard",
                                 parentPartName |-> Undefined],
      [object |-> "key",         partName |-> Undefined,
                                 parentPartName |-> "keyboard"],
      [object |-> "battery",     partName |-> "battery",
                                 parentPartName |-> Undefined],
      [object |-> "port",        partName |-> Undefined,
                                 parentPartName |-> "ports"],
      [object |-> "motherboard", partName |-> "motherboard",
                                 parentPartName |-> Undefined],
      [object |-> "trace",       partName |-> Undefined,
                                 parentPartName |-> "motherboard"] }

\* The pointer over none of them: intersects is empty.
NoHit == [object |-> "none", partName |-> Undefined,
          parentPartName |-> Undefined]

\* The part of the laptop an object belongs to.
PartOf(hit) ==
    IF hit.object \in {"key", "port", "trace"} THEN hit.parentPartName
    ELSE hit.partName

\* checkIntersections: with a first hit, userData.partName || parent's;
\* hoveredPart null is kept as Undefined.
checkIntersections(w, hit) ==
    IF hit # NoHit
    THEN LET partName == IF hit.partName # Undefined THEN hit.partName
                         ELSE hit.parentPartName
         IN  [w EXCEPT !.sceneManager.hoveredPart = partName]
    ELSE [w EXCEPT !.sceneManager.hoveredPart = Undefined]

onMouseMove(w, hit) ==
    IF w.sceneManager.isTourMode THEN w ELSE checkIntersections(w, hit)

onMouseClick(w, hit) ==
    IF hit # NoHit THEN emit(w, "partClick", hit.partName, hit.object)
    ELSE w

----------------------------------------------------------------------------
(* PortfolioApp.init, one step per module                                  *)

\* What a page can lack, by the step of init that then throws: matchMedia
\* (AccessibilityManager), the terminal's elements (TerminalUI.init), the
\* canvas or WebGL (SceneManager.init), IntersectionObserver
\* (ScrollController), and the listener setup.
InitSteps == {"accessibility", "terminal", "scene", "scroll", "listeners"}

\* A catch block that marks the failure without showing the fallback page.
handleInitializationErrorSilently(w) ==
    [w EXCEPT !.app.pc = "failed", !.win.portfolioApp = TRUE]

\* handleInitializationError: body.innerHTML is replaced by the fallback
\* page, which removes the terminal's elements from the document.
handleInitializationError(w) ==
    [w EXCEPT !.doc.fallback = TRUE, !.doc.terminalDom = FALSE,
              !.doc.focus = "body", !.app.pc = "failed",
              !.win.portfolioApp = TRUE]

\* detectScreenReader: true for a screen-reader user agent or when reduced
\* motion is preferred (speechSynthesis is not speaking while the page
\* loads); only when it gets past those checks does it register the
\* mousedown and keydown listeners that keep isKeyboardNavigation.
detectScreenReader(w) ==
    IF w.win.prefs.screenReader \/ w.win.prefs.reducedMotion
    THEN [w EXCEPT !.accessibilityManager.isScreenReaderActive = TRUE]
    ELSE [w EXCEPT !.accessibilityManager.keyTracking = TRUE,
                   !.doc.keydown = Append(@, "detectScreenReader.keydown")]

\* updateFocusableElements: the focusable elements of the document, in
\* document order.
updateFocusableElements(w) ==
    [w EXCEPT !.accessibilityManager.focusableElements = w.doc.layout]

\* body gets 'loading'; new AccessibilityManager(); new MobileController().
initAccessibility(w) ==
    LET w1 == [w EXCEPT !.doc.bodyClasses = @ \cup {"loading"}]
        w2 == detectScreenReader(
                  [w1 EXCEPT
                      !.accessibilityManager.isReducedMotionPreferred =
                          w.win.prefs.reducedMotion])
        w3 == updateFocusableElements(
                  [w2 EXCEPT !.accessibilityManager.listening = TRUE])
    IN
    IF "accessibility" \in w.app.envFail THEN handleInitializationError(w1)
    ELSE [w3 EXCEPT
             !.doc.keydown =
                 @ \o <<"AccessibilityManager.handleGlobalKeydown",
                        "setupFocusTrap.keydown">>,
             !.app.modules =
                 @ \cup {"accessibilityManager"}
                   \cup (IF w.app.isMobile THEN {"mobileController"} ELSE {}),
             !.app.pc = "terminal"]

\* new TerminalUI() and the synchronous body of its init(); the constructor
\* of PortfolioApp then returns and window.portfolioApp is assigned.
initTerminal(w) ==
    LET w1 == [w EXCEPT !.app.modules = @ \cup {"terminalUI"},
                        !.win.portfolioApp = TRUE]
    IN  IF "terminal" \in w.app.envFail THEN handleInitializationError(w1)
        ELSE focusInput(
                 [w1 EXCEPT !.terminalUI.dom = TRUE,
                            !.doc.inputKeydown = <<"TerminalUI.handleKeyDown">>,
                            !.app.pc = "scene"])

\* new SceneManager() and its init(), which starts the import of anime.js.
initScene(w) ==
    LET w1 == [w EXCEPT !.app.modules = @ \cup {"sceneManager"}] IN
    IF "scene" \in w.app.envFail THEN handleInitializationError(w1)
    ELSE [w1 EXCEPT !.sceneManager.importPending = TRUE,
                    !.sceneManager.canvasListeners = TRUE,
                    !.app.pc = "scroll"]

\* new ScrollController(): its listeners are registered on window before
\* the IntersectionObserver is created; this.scrollController is assigned
\* only if the constructor returns.
initScroll(w) ==
    LET w1 == [w EXCEPT !.win.keydown =
                            Append(@, "ScrollController.handleKeyboard"),
                        !.win.scrollListeners = TRUE]
    IN  IF "scroll" \in w.app.envFail THEN handleInitializationError(w1)
        ELSE [w1 EXCEPT !.app.modules = @ \cup {"scrollController"},
                        !.app.pc = "listeners"]

\* setupEventListeners and the rest of init; showWelcomeMessage starts
\* typing the welcome text.
setupEventListeners(w) ==
    IF "listeners" \in w.app.envFail THEN handleInitializationError(w)
    ELSE showResponse(
             [w EXCEPT
                 !.doc.keydown = Append(@, "PortfolioApp.handleKeyDown"),
                 !.app.listeners = {"command", "partClick", "partHover"},
                 !.app.isInitialized = TRUE,
                 !.doc.bodyClasses = (@ \ {"loading"}) \cup {"loaded"},
                 !.app.pc = "ready"],
             "welcome")

isReady == app.isInitialized

----------------------------------------------------------------------------
(* Initial state: the fields as the constructors leave them                *)

Sections == {"about", "projects", "contact", "resume"}

\* Section names a caller of navigateToSection may pass.
SectionNames == Sections \cup {"blog", "constructor"}

TimerIds ==
    [kind : {"focusInput", "restoreHint", "navigationOptions", "scrollEnd"},
     arg : {""}]
      \cup [kind : {"partClick"}, arg : Sections]
      \cup [kind : {"navigate"}, arg : SectionNames]

\* The event handled last, with what its handlers did.
Event(type) ==
    [type |-> type, key |-> "", ctrlKey |-> FALSE, line |-> <<>>,
     hit |-> "", arg |-> "", run |-> NoRun]

\* The touch in progress: the fingers down, where touches[0] is and where
\* it went down, the phase at that time, and whether a single-finger move
\* of this touch went more than 50px vertically and further than
\* horizontally; after the touch, the swipe it was taken for.
NoTouch == [fingers |-> 0, clientX |-> 0, clientY |-> 0, startX |-> 0,
            startY |-> 0, startPhase |-> IDLE, qualified |-> FALSE,
            swipe |-> "none", count |-> 0, moves |-> 0]

InitEmitter(isMobile, envFail, prefs, layout, emitterCatches) ==
    /\ app = [pc |-> "accessibility", isInitialized |-> FALSE,
              isMobile |-> isMobile, envFail |-> envFail, modules |-> {},
              listeners |-> {}, emitterCatches |-> emitterCatches]
    /\ doc = [bodyClasses |-> {}, fallback |-> FALSE, focus |-> "body",
              pointerOver |-> "none",
              inputKeydown |-> <<>>, keydown |-> <<>>,
              terminalDom |-> "terminal" \notin envFail,
              layout |-> layout, focusVisible |-> FALSE]
    /\ win = [timers |-> [t \in TimerIds |-> 0], location |-> "/",
              opened |-> 0, portfolioApp |-> FALSE, keydown |-> <<>>,
              scrollListeners |-> FALSE, prefs |-> prefs]
    /\ accessibilityManager =
           [isScreenReaderActive |-> FALSE,
            isReducedMotionPreferred |-> FALSE,
            isKeyboardNavigation |-> FALSE, focusableElements |-> <<>>,
            currentFocusIndex |-> -1, keyTracking |-> FALSE,
            listening |-> FALSE]
    /\ terminalUI = [dom |-> FALSE, isMinimized |-> FALSE,
                     commandHistory |-> <<>>, historyIndex |-> -1,
                     currentLine |-> <<>>, inputValue |-> <<>>,
                     output |-> <<>>]
    /\ sceneManager = [scrollProgress |-> 0, isTourMode |-> FALSE,
                       anime |-> FALSE,
                       disassemblyTimeline |->
                           [created |-> FALSE, currentTime |-> 0],
                       hoveredPart |-> Undefined, importPending |-> FALSE,
                       canvasListeners |-> FALSE]
    /\ scrollController = [scrollProgress |-> 0, currentPhase |-> IDLE,
                           isScrolling |-> FALSE, touchStartY |-> 0,
                           anim |-> NoAnimation]
    /\ mobileController = [touchStartY |-> 0, touchStartX |-> 0,
                           lastTouchY |-> 0, velocityY |-> 0,
                           lastTouchTime |-> FALSE,
                           isGestureActive |-> FALSE]
    /\ touch = NoTouch
    /\ ev = Event("load")

\* A page whose focusable elements are the terminal input and a link,
\* loaded by a visitor with no accessibility preference.
NoPreferences == [reducedMotion |-> FALSE, screenReader |-> FALSE]

DefaultLayout == <<"input", "link">>

\* The page with an emitter that lets listeners' exceptions out.
InitPage(isMobile, envFail, prefs, layout) ==
    InitEmitter(isMobile, envFail, prefs, layout, FALSE)

InitWith(isMobile, envFail) ==
    InitPage(isMobile, envFail, NoPreferences, DefaultLayout)

----------------------------------------------------------------------------
(* Actions                                                                 *)

\* The bounds of the model: an event that would exceed one is not taken.
Bounded(w) ==
    /\ \A t \in TimerIds : w.win.timers[t] <= MaxTimers
    /\ Len(w.terminalUI.commandHistory) <= MaxHistory
    /\ Len(w.doc.keydown) <= MaxListeners
    /\ w.win.opened <= MaxOpened

Handle(w, e) == Bounded(w) /\ Commit(w, [e EXCEPT !.run = w.run])

\* init runs to its end, or to its catch, before any event is handled.
Loaded == app.pc \in {"ready", "failed"}

InitAccessibility ==
    /\ app.pc = "accessibility"
    /\ Handle(initAccessibility(World), Event("init"))

InitTerminal ==
    /\ app.pc = "terminal"
    /\ Handle(initTerminal(World), Event("init"))

InitScene ==
    /\ app.pc = "scene"
    /\ Handle(initScene(World), Event("init"))

InitScroll ==
    /\ app.pc = "scroll"
    /\ Handle(initScroll(World), Event("init"))

InitListeners ==
    /\ app.pc = "listeners"
    /\ Handle(setupEventListeners(World), Event("init"))

InitApp ==
    InitAccessibility \/ InitTerminal \/ InitScene \/ InitScroll
        \/ InitListeners

\* The dynamic import of anime.js resolves.
ImportResolved ==
    /\ Loaded
    /\ sceneManager.importPending
    /\ Handle(setupDisassemblyAnimation(
                  [World EXCEPT !.sceneManager.importPending = FALSE]),
              Event("import"))

KeyDown(key, ctrlKey) ==
    /\ Loaded
    /\ Handle(keydown(World, key, ctrlKey),
              [Event("keydown") EXCEPT !.key = key, !.ctrlKey = ctrlKey,
                                       !.line = terminalUI.currentLine])

\* The visitor edits the input line to `line` (input events).
TypeLine(line) ==
    /\ Loaded
    /\ doc.focus = "input"
    /\ terminalUI.inputValue # line
    /\ Handle(handleInput(World, line),
              [Event("input") EXCEPT !.line = line])

\* The input loses the focus; handleBlur arms a 100 ms timer that calls
\* focusInput unless the focus is back in the terminal.
Blur ==
    /\ Loaded
    /\ doc.focus = "input"
    /\ Handle(blurElement(World), Event("blur"))

FocusInputTimer ==
    /\ Pending("focusInput", "")
    /\ Handle(focusInput(timerFired(World, "focusInput", "")),
              Event("focusInputTimer"))

RestoreHintTimer ==
    /\ Pending("restoreHint", "")
    /\ LET w == timerFired(World, "restoreHint", "") IN
       Handle(IF w.terminalUI.isMinimized THEN showRestoreHint(w) ELSE w,
              Event("restoreHintTimer"))

NavigationOptionsTimer ==
    /\ Pending("navigationOptions", "")
    /\ Handle(showResponse(timerFired(World, "navigationOptions", ""),
                           "navigationOptions"),
              Event("navigationOptionsTimer"))

ScrollEndTimer ==
    /\ Pending("scrollEnd", "")
    /\ Handle(onScrollEnd(timerFired(World, "scrollEnd", "")),
              Event("scrollEndTimer"))

PartClickTimer ==
    \E section \in Sections :
        /\ Pending("partClick", section)
        /\ Handle(navigateToSection(timerFired(World, "partClick", section),
                                    section),
                  [Event("partClickTimer") EXCEPT !.arg = section])

NavigateTimer ==
    \E section \in SectionNames :
        /\ Pending("navigate", section)
        /\ Handle(navigate(timerFired(World, "navigate", section), section),
                  [Event("navigateTimer") EXCEPT !.arg = section])

\* A turn of the wheel is a new input: the swipe whose outcome was being
\* followed (touch.swipe) is over.
Wheel(deltaY) ==
    /\ Loaded
    /\ win.scrollListeners
    /\ Handle(handleWheel([World EXCEPT !.touch.swipe = "none"], deltaY),
              Event("wheel"))

\* One requestAnimationFrame callback of a running animateToProgress;
\* frame timestamps increase.
AnimationFrame(elapsed) ==
    /\ scrollController.anim.active
    /\ elapsed > scrollController.anim.elapsed
    /\ Handle(animate(World, elapsed), Event("frame"))

\* Calls of the public methods, by the modules of the page or by a script.
\* One animateToProgress runs at a time.
CallSetScrollProgress(value) ==
    /\ app.pc = "ready"
    /\ ~scrollController.anim.active
    /\ Handle(setScrollProgress(World, value), Event("setScrollProgress"))

CallScrollToNext ==
    /\ app.pc = "ready"
    /\ ~scrollController.anim.active
    /\ Handle(scrollToNext(World), Event("scrollToNext"))

CallNavigateToSection(section) ==
    /\ app.pc = "ready"
    /\ Handle(navigateToSection(World, section),
              [Event("navigateToSection") EXCEPT !.arg = section])

\* The pointer moves over, or clicks, the canvas where `hit` is the first
\* object under it.  A click outside the terminal takes the focus from
\* the input (see Blur).
MouseMove(hit) ==
    /\ Loaded
    /\ sceneManager.canvasListeners
    /\ doc.pointerOver # hit.object
    /\ Handle(onMouseMove([World EXCEPT !.doc.pointerOver = hit.object],
                          hit),
              [Event("mousemove") EXCEPT !.hit = hit.object])

Click(hit) ==
    /\ Loaded
    /\ sceneManager.canvasListeners
    /\ doc.pointerOver = hit.object
    /\ LET w == IF doc.focus = "input" THEN blurElement(mousedown(World))
                ELSE mousedown(World)
       IN  Handle(onMouseClick(w, hit),
                  [Event("click") EXCEPT !.hit = hit.object])

\* The visitor presses the mouse button on a focusable element, or on the
\* page background ("body"); on the canvas, where no laptop part is.  The
\* mousedown listeners run, then the focus moves there.
MouseDown(el) ==
    /\ Loaded
    /\ el = "body" \/ \E i \in 1..Len(doc.layout) : doc.layout[i] = el
    /\ el # doc.focus
    /\ LET w == mousedown(World) IN
       Handle(IF el = "body" THEN blurElement(w) ELSE focusElement(w, el),
              [Event("mousedown") EXCEPT !.arg = el])

\* Touch events, on a page area that is not a laptop part.  touches[0] is
\* at (clientX, clientY); with two fingers down, the second one is the
\* first to lift.  The listeners of document (MobileController) run
\* before those of window (ScrollController).  The visitor lets a running
\* animateToProgress finish before touching the page again.
TouchStart(fingers, clientX, clientY) ==
    /\ Loaded
    /\ touch.fingers = 0
    /\ touch.count < MaxTouches
    /\ ~scrollController.anim.active
    /\ LET w0 == [World EXCEPT !.touch =
                     [NoTouch EXCEPT !.fingers = fingers,
                                     !.clientX = clientX,
                                     !.clientY = clientY,
                                     !.startX = clientX,
                                     !.startY = clientY,
                                     !.startPhase =
                                         scrollController.currentPhase,
                                     !.count = touch.count + 1]]
           w1 == IF "mobileController" \in app.modules
                 THEN mcHandleTouchStart(w0, fingers, clientX, clientY)
                 ELSE w0
           w2 == IF win.scrollListeners THEN scHandleTouchStart(w1, clientY)
                 ELSE w1
       IN  Handle(w2, Event("touchstart"))

\* deltaTime: the ms since the touch event before this one.
TouchMove(clientX, clientY, deltaTime) ==
    /\ touch.fingers >= 1
    /\ touch.moves < MaxMoves
    /\ <<clientX, clientY>> # <<touch.clientX, touch.clientY>>
    /\ LET dy == Abs(clientY - touch.startY)
           dx == Abs(clientX - touch.startX)
           w0 == [World EXCEPT
                     !.touch.clientX = clientX,
                     !.touch.clientY = clientY,
                     !.touch.moves = @ + 1,
                     !.touch.qualified =
                         @ \/ (touch.fingers = 1 /\ dy > 50 /\ dy > dx)]
           w1 == IF "mobileController" \in app.modules
                 THEN mcHandleTouchMove(w0, touch.fingers, clientX, clientY,
                                        deltaTime)
                 ELSE w0
           w2 == IF win.scrollListeners THEN scHandleTouchMove(w1, clientY)
                 ELSE w1
       IN  Handle(w2, Event("touchmove"))

touchEndListeners(w) ==
    LET w1 == IF "mobileController" \in w.app.modules
              THEN mcHandleTouchEnd(w) ELSE w
    IN  IF w.win.scrollListeners THEN scHandleTouchEnd(w1) ELSE w1

\* touchend of the second of two fingers.
LiftFinger ==
    /\ touch.fingers = 2
    /\ Handle(touchEndListeners([World EXCEPT !.touch.fingers = 1]),
              Event("touchend"))

\* touchend of the last finger.
TouchEnd ==
    /\ touch.fingers = 1
    /\ LET w1 == touchEndListeners(World)
           calls == {w1.run.calls[i] : i \in 1..Len(w1.run.calls)}
           swipe == IF <<"handleSwipeUp">> \in calls THEN "up"
                    ELSE IF <<"handleSwipeDown">> \in calls THEN "down"
                    ELSE "none"
       IN  Handle([w1 EXCEPT !.touch =
                      IF swipe = "none"
                      THEN [NoTouch EXCEPT !.count = touch.count]
                      ELSE [NoTouch EXCEPT !.startPhase = touch.startPhase,
                                           !.swipe = swipe,
                                           !.count = touch.count]],
                  Event("touchend"))

\* touchcancel: the browser takes the touch over; nobody listens for it.
TouchCancel ==
    /\ touch.fingers >= 1
    /\ Handle([World EXCEPT !.touch = [NoTouch EXCEPT !.count = touch.count]],
              Event("touchcancel"))

----------------------------------------------------------------------------
(* Specification: page load, Escape and tour mode                          *)

\* The keys pressed and the lines typed under this specification.
Keys == {"Escape", "Enter"}

Lines == {tour}

Init ==
    \E isMobile \in BOOLEAN, envFail \in SUBSET InitSteps :
        InitWith(isMobile, envFail)

PressKey == \E key \in Keys : KeyDown(key, FALSE)

Type == \E line \in Lines : TypeLine(line)

Next ==
    \/ InitApp
    \/ ImportResolved
    \/ PressKey
    \/ Type
    \/ Blur
    \/ FocusInputTimer
    \/ RestoreHintTimer

Spec == Init /\ [][Next]_vars

----------------------------------------------------------------------------
(* Specification: the terminal's line editing and history                  *)

TerminalKeys == {"Enter", "ArrowUp", "ArrowDown"}

TerminalLines == {tour}

InitDesktop == InitWith(FALSE, {})

PressTerminalKey == \E key \in TerminalKeys : KeyDown(key, FALSE)

PressCtrlC == KeyDown("c", TRUE)

TypeTerminalLine == \E line \in TerminalLines : TypeLine(line)

NextTerminal ==
    \/ InitApp
    \/ PressTerminalKey
    \/ PressCtrlC
    \/ TypeTerminalLine
    \/ FocusInputTimer
    \/ NavigationOptionsTimer
    \/ ScrollEndTimer

SpecTerminal == InitDesktop /\ [][NextTerminal]_vars

----------------------------------------------------------------------------
(* Specification: scrolling on a desktop page                              *)

ScrollKeys == {"ArrowDown", "ArrowUp", "PageDown", "PageUp", " ", "Home",
               "End"}

\* event.deltaY of a wheel event; only its sign is read.
WheelDeltas == {-100, 100}

\* Arguments of setScrollProgress, in hundredths.
ProgressValues == {-20, 50, 130}

\* The rAF timestamps of an animation, in tenths of its duration.
FrameTimes == {5, 10}

\* clientY of the touch points of a drag.
DragYs == {40, 100}

\* Under this specification the visitor scrolls while no animateToProgress
\* is running, and scrollToNext is called while no finger is down.
AtRest == ~scrollController.anim.active /\ touch.fingers = 0

TurnWheel == AtRest /\ \E deltaY \in WheelDeltas : Wheel(deltaY)

PressScrollKey == AtRest /\ \E key \in ScrollKeys : KeyDown(key, FALSE)

ScrollToNext == AtRest /\ CallScrollToNext

SetProgress == \E value \in ProgressValues : CallSetScrollProgress(value)

Frame == \E elapsed \in FrameTimes : AnimationFrame(elapsed)

DragStart == \E clientY \in DragYs : TouchStart(1, 0, clientY)

DragMove == \E clientY \in DragYs : TouchMove(0, clientY, 10)

NextScroll ==
    \/ InitApp
    \/ ImportResolved
    \/ TurnWheel
    \/ PressScrollKey
    \/ SetProgress
    \/ ScrollToNext
    \/ Frame
    \/ DragStart
    \/ DragMove
    \/ TouchEnd
    \/ ScrollEndTimer
    \/ NavigationOptionsTimer

SpecScroll == InitDesktop /\ [][NextScroll]_vars

----------------------------------------------------------------------------
(* Specification: the commands of the README's user guide                  *)

ReadmeCommands == {help, tour, about, projects, contact, resume, clear,
                   whoami, ls}

\* The commands the README says navigate or start the tour.
ForwardedCommands == {tour, about, projects, contact, resume}

LetterCases == {"lower", "UPPER", "Capitalized"}

inCase(s, letterCase) ==
    IF letterCase = "UPPER" THEN toUpperCase(s)
    ELSE IF letterCase = "Capitalized"
    THEN <<toUpperCaseChar(Head(s))>> \o Tail(s)
    ELSE s

\* Whitespace typed before or after a command.
Pads == {<<>>, <<" ">>, <<"\t", " ">>}

ReadmeLine(command, letterCase, before, after) ==
    before \o inCase(command, letterCase) \o after

ReadmeLines ==
    {ReadmeLine(command, letterCase, before, after) :
        command \in ReadmeCommands, letterCase \in LetterCases,
        before \in Pads, after \in Pads}

\* Under this specification the visitor keeps to one command in one
\* spelling, retyped with any padding.
TypeReadmeLine ==
    \E line \in ReadmeLines :
        /\ terminalUI.commandHistory # <<>>
             => trim(line) = terminalUI.commandHistory[1]
        /\ TypeLine(line)

PressEnter == KeyDown("Enter", FALSE)

NextCmd ==
    \/ InitApp
    \/ TypeReadmeLine
    \/ PressEnter
    \/ FocusInputTimer
    \/ NavigateTimer

SpecCmd == InitDesktop /\ [][NextCmd]_vars

----------------------------------------------------------------------------
(* Specification: pointing at and clicking the laptop                      *)

PointerTargets == HitObjects \cup {NoHit}

MovePointer == \E hit \in PointerTargets : MouseMove(hit)

\* Under this specification the visitor clicks again once the navigation
\* armed by the click before has been done.
ClickCanvas ==
    /\ \A t \in TimerIds : t.kind \in {"partClick", "navigate"} => win.timers[t] = 0
    /\ \E hit \in PointerTargets : Click(hit)

NextClick ==
    \/ InitApp
    \/ MovePointer
    \/ ClickCanvas
    \/ FocusInputTimer
    \/ PartClickTimer
    \/ NavigateTimer

SpecClick == InitDesktop /\ [][NextClick]_vars

----------------------------------------------------------------------------
(* Specification: calls of navigateToSection                               *)

CallSection == \E section \in SectionNames : CallNavigateToSection(section)

NextNavigate ==
    \/ InitApp
    \/ CallSection
    \/ NavigateTimer

SpecNavigate == InitDesktop /\ [][NextNavigate]_vars

----------------------------------------------------------------------------
(* Specification: swipes on a mobile page                                  *)

InitMobile == InitWith(TRUE, {})

\* clientY of the touch points of a swipe, and the ms between two touch
\* events.
SwipeYs == {40, 70, 100}

TouchTimes == {10, 1000}

\* The page is scrolled with the wheel while no animateToProgress is
\* running and no finger is down.
WheelAtRest == AtRest /\ \E deltaY \in WheelDeltas : Wheel(deltaY)

SwipeStart == \E clientY \in SwipeYs : TouchStart(1, 0, clientY)

SwipeMove ==
    \E clientY \in SwipeYs, deltaTime \in TouchTimes :
        TouchMove(0, clientY, deltaTime)

NextTouch ==
    \/ InitApp
    \/ WheelAtRest
    \/ SwipeStart
    \/ SwipeMove
    \/ TouchEnd
    \/ Frame
    \/ ScrollEndTimer
    \/ NavigationOptionsTimer

SpecTouch == InitMobile /\ [][NextTouch]_vars

----------------------------------------------------------------------------
(* Specification: gesture recognition with one or two fingers              *)

GestureYs == {40, 100, 110}

GestureXs == {0, 100}

GestureStart ==
    \E fingers \in 1..2, clientX \in GestureXs, clientY \in GestureYs :
        TouchStart(fingers, clientX, clientY)

GestureMove ==
    \E clientX \in GestureXs, clientY \in GestureYs,
       deltaTime \in TouchTimes :
        TouchMove(clientX, clientY, deltaTime)

NextGesture ==
    \/ InitApp
    \/ GestureStart
    \/ GestureMove
    \/ LiftFinger
    \/ TouchEnd
    \/ TouchCancel
    \/ Frame
    \/ ScrollEndTimer

SpecGesture == InitMobile /\ [][NextGesture]_vars

----------------------------------------------------------------------------
(* Specification: Tab navigation and focus indicators                      *)

\* The focusable elements of the page, in document order.
Layouts == {<<"input", "canvas", "link">>,
            <<"input", "canvas", "control", "link">>}

\* What matchMedia('(prefers-reduced-motion: reduce)') and
\* navigator.userAgent report.
Preferences == [reducedMotion : BOOLEAN, screenReader : BOOLEAN]

Elements == {"body", "input", "canvas", "control", "link"}

TabLines == {<<"t">>, <<"t", "o">>}

InitTab ==
    \E prefs \in Preferences, layout \in Layouts :
        InitPage(FALSE, {}, prefs, layout)

PressTab == \E key \in {"Tab", "Shift+Tab"} : KeyDown(key, FALSE)

PressMouse == \E el \in Elements : MouseDown(el)

TypeTabLine == \E line \in TabLines : TypeLine(line)

NextTab ==
    \/ InitApp
    \/ PressTab
    \/ PressMouse
    \/ TypeTabLine
    \/ FocusInputTimer

SpecTab == InitTab /\ [][NextTab]_vars

----------------------------------------------------------------------------
(* Specification: scrolling with the keyboard                              *)

\* Keys handleKeyboard has no case for: their listeners elsewhere run.
OtherKeys == {"Enter", "Escape", "a"}

PressAnyKey == \E key \in ScrollKeys \cup OtherKeys : KeyDown(key, FALSE)

NextKeys ==
    \/ InitApp
    \/ PressAnyKey
    \/ TurnWheel
    \/ ScrollEndTimer
    \/ NavigationOptionsTimer

SpecKeys == InitDesktop /\ [][NextKeys]_vars

----------------------------------------------------------------------------
(* Specification: setScrollProgress with any argument                      *)

\* Arguments of setScrollProgress: below, inside and above the range, and a
\* value that is not a number (NaN itself, undefined, a non-numeric string).
AnyValues == ProgressValues \cup {NaN}

SetAnyProgress == \E value \in AnyValues : CallSetScrollProgress(value)

NextRange ==
    \/ InitApp
    \/ TurnWheel
    \/ PressScrollKey
    \/ SetAnyProgress
    \/ ScrollToNext
    \/ Frame
    \/ DragStart
    \/ DragMove
    \/ TouchEnd
    \/ ScrollEndTimer
    \/ NavigationOptionsTimer

SpecRange == InitDesktop /\ [][NextRange]_vars

----------------------------------------------------------------------------
(* Specification: entering known and unknown commands                      *)

\* The cases of handleTerminalCommand's switch.
appCommands == {help, tour, about, projects, contact, resume, clear, theme}

\* Lines entered: a command of the table, a word that is no command, the
\* same word padded, and a line of white space.
EnterLines == {ls, <<"x">>, <<" ", "x", " ">>, <<" ">>}

\* The page on a desktop, under either emitter.
InitEnter ==
    \E emitterCatches \in BOOLEAN :
        InitEmitter(FALSE, {}, NoPreferences, DefaultLayout, emitterCatches)

TypeEnterLine == \E line \in EnterLines : TypeLine(line)

NextEnter ==
    \/ InitApp
    \/ TypeEnterLine
    \/ PressEnter
    \/ Blur
    \/ FocusInputTimer

SpecEnter == InitEnter /\ [][NextEnter]_vars

----------------------------------------------------------------------------
(* Claims                                                                  *)

\* C1: SceneManager.scrollProgress equals ScrollController.scrollProgress
\* and ScrollController.currentPhase equals
\* getPhaseFromProgress(scrollProgress), after every operation that changes
\* the scroll position (and so in every state).
C1_ScrollStateInSync ==
    /\ sceneManager.scrollProgress = scrollController.scrollProgress
    /\ scrollController.currentPhase
         = getPhaseFromProgress(scrollController.scrollProgress)

\* C1 witness: a frame of animateToProgress, half way from 0.25 to 0.65,
\* has moved the page into the DISASSEMBLING phase.
C1_Witness ==
    /\ ev.type = "frame"
    /\ scrollController.anim.active
    /\ scrollController.anim.startProgress = 25
    /\ scrollController.scrollProgress = 60
    /\ scrollController.currentPhase = DISASSEMBLING

\* C2: in every state in which the disassembly timeline exists, its seek
\* position is scrollProgress times the timeline's duration, whenever the
\* import that creates the timeline resolves.
C2_TimelineFollowsScroll ==
    sceneManager.disassemblyTimeline.created
      => sceneManager.disassemblyTimeline.currentTime * ProgressScale
           = sceneManager.scrollProgress * TimelineDuration

\* C3: a single Escape press on the loaded page, with the terminal shown:
\* while tour mode is active and the focus is outside the terminal input,
\* it ends with tour mode exited and the terminal not minimized; while
\* tour mode is inactive, it ends with the terminal minimized.  All the
\* keydown listeners run, in registration order.
C3_EscapeExitsTourOrMinimizes ==
    [][(/\ ev'.type = "keydown" /\ ev'.key = "Escape"
        /\ app.pc = "ready" /\ ~terminalUI.isMinimized)
       => IF sceneManager.isTourMode
          THEN doc.focus # "input"
                 => ~sceneManager'.isTourMode /\ ~terminalUI'.isMinimized
          ELSE terminalUI'.isMinimized]_vars

\* C7: if a step of PortfolioApp.init throws, init ends in its catch, the
\* fallback page replaces the body, isReady() is false from then on and
\* the body never has the class 'loaded'.
C7_InitFailureShowsFallback ==
    /\ (Loaded /\ app.envFail # {}) => app.pc = "failed"
    /\ app.pc = "failed"
         => doc.fallback /\ ~isReady /\ "loaded" \notin doc.bodyClasses

\* C7 witness: the listener setup threw, and a key was pressed on the
\* fallback page afterwards.
C7_Witness ==
    /\ app.pc = "failed" /\ app.envFail = {"listeners"}
    /\ ev.type = "keydown" /\ doc.fallback

\* C10: Ctrl+C in the terminal input clears the input line and
\* currentLine, leaves commandHistory and historyIndex as they were and
\* delivers no 'command' event.
C10_CtrlCCancels ==
    [][(/\ ev'.type = "keydown" /\ ev'.key = "c" /\ ev'.ctrlKey
        /\ doc.focus = "input")
       => /\ terminalUI'.inputValue = <<>>
          /\ terminalUI'.currentLine = <<>>
          /\ terminalUI'.commandHistory = terminalUI.commandHistory
          /\ terminalUI'.historyIndex = terminalUI.historyIndex
          /\ ev'.run.delivered = <<>>]_vars

\* C10 witness: Ctrl+C was pressed after the history had been walked back
\* to its first entry.
C10_Witness ==
    /\ ev.type = "keydown" /\ ev.key = "c" /\ ev.ctrlKey
    /\ Len(terminalUI.commandHistory) = 2
    /\ terminalUI.historyIndex = 0
    /\ terminalUI.inputValue = <<>>

\* C4: every command of the README's user guide, typed in any letter case
\* and with whitespace around it, is run as a known command: Enter never
\* shows the 'Command not found' error, and for tour, about, projects,
\* contact and resume exactly one 'command' event, carrying the command's
\* name, reaches PortfolioApp.handleTerminalCommand.
C4_ReadmeCommandsRecognised ==
    [][\A command \in ReadmeCommands, letterCase \in LetterCases,
          before \in Pads, after \in Pads :
          (/\ ev'.type = "keydown" /\ ev'.key = "Enter"
           /\ app.pc = "ready" /\ doc.focus = "input"
           /\ terminalUI.currentLine
                = ReadmeLine(command, letterCase, before, after))
          => /\ \A i \in 1..Len(ev'.run.calls) :
                    ev'.run.calls[i] # <<"showError", "commandNotFound">>
             /\ command \in ForwardedCommands
                  => ev'.run.delivered = <<command>>]_vars

\* C4 witness: Enter was pressed on " \tRESUME" with a space after it, and
\* one 'command' event for resume was delivered.
C4_Witness ==
    /\ ev.type = "keydown" /\ ev.key = "Enter"
    /\ ev.line = ReadmeLine(resume, "UPPER", <<"\t", " ">>, <<" ">>)
    /\ ev.run.delivered = <<resume>>
    /\ Pending("navigate", "resume")

\* C5: a click on any object the raycast can return first (a part's mesh
\* or a child mesh of it) delivers partClick with the name of the part the
\* object belongs to, which is the name hover reports for that object, and
\* arms the navigation to the part's section (screen: projects, keyboard:
\* about, ports: contact, battery: resume, motherboard: none); the timer
\* then calls navigateToSection with that section.
C5_ClickNavigatesToPartSection ==
    [][/\ \A hit \in HitObjects :
            (ev'.type = "click" /\ ev'.hit = hit.object /\ app.pc = "ready")
            => /\ ev'.run.calls = << <<"handlePartClick", PartOf(hit)>> >>
               /\ PartOf(hit) = sceneManager.hoveredPart
               /\ \A section \in Sections :
                      win'.timers[[kind |-> "partClick", arg |-> section]]
                        = win.timers[[kind |-> "partClick", arg |-> section]]
                            + (IF lookup(sectionMap, PartOf(hit)) = section
                               THEN 1 ELSE 0)
       /\ ev'.type = "partClickTimer"
            => ev'.run.calls = << <<"navigateToSection", ev'.arg>> >>]_vars

\* C6: a call of navigateToSection with about, projects, contact or resume
\* arms exactly one navigation, which assigns window.location the
\* section's page, or for resume opens /resume.pdf in a new window and
\* leaves the location alone; a call with any other name arms nothing and
\* writes nothing to the terminal.
C6_NavigateToSectionMapping ==
    [][/\ ev'.type = "navigateToSection"
            => IF ev'.arg \in Sections
               THEN win'.timers =
                        [win.timers EXCEPT
                            ![[kind |-> "navigate", arg |-> ev'.arg]] = @ + 1]
               ELSE win'.timers = win.timers /\ ev'.run.written = 0
       /\ (ev'.type = "navigateTimer" /\ ev'.arg \in Sections)
            => IF ev'.arg = "resume"
               THEN win'.opened = win.opened + 1
                      /\ win'.location = win.location
               ELSE win'.opened = win.opened
                      /\ win'.location = urls[ev'.arg]]_vars

C9_GestureNeedsQualifyingMove ==
    [][ev'.type = "touchend"
       => /\ (\E i \in 1..Len(ev'.run.calls) :
                  ev'.run.calls[i] = <<"processGesture">>)
               => touch.qualified
          /\ ~mobileController'.isGestureActive]_vars

C12_TabShowsFocusIndicators ==
    [][/\ (ev'.type = "keydown" /\ isTab(ev'.key) /\ app.pc = "ready")
            => accessibilityManager'.isKeyboardNavigation
       /\ (accessibilityManager.isKeyboardNavigation
              /\ ev'.type \notin {"mousedown", "click"})
            => accessibilityManager'.isKeyboardNavigation
       /\ (/\ app.pc = "ready"
           /\ ev'.type \notin {"mousedown", "click"}
           /\ accessibilityManager.isKeyboardNavigation
                \/ (ev'.type = "keydown" /\ isTab(ev'.key))
           /\ doc'.focus # doc.focus /\ doc'.focus # "body")
            => doc'.focusVisible]_vars

\* C13: a key press changes scrollProgress by +0.1 for ArrowDown, PageDown
\* and Space, by -0.1 for ArrowUp and PageUp, to 0 for Home and to 1 for
\* End, clamped to [0, 1]; any other key leaves scrollProgress and
\* currentPhase as they were.
C13_KeyboardScrolling ==
    [][(ev'.type = "keydown" /\ app.pc = "ready")
       => LET progress == scrollController.scrollProgress
              after == scrollController'.scrollProgress
          IN  IF ev'.key \in {"ArrowDown", "PageDown", " "}
              THEN after = Min(ProgressScale, progress + 10)
              ELSE IF ev'.key \in {"ArrowUp", "PageUp"}
              THEN after = Max(0, progress - 10)
              ELSE IF ev'.key = "Home" THEN after = 0
              ELSE IF ev'.key = "End" THEN after = ProgressScale
              ELSE /\ after = progress
                   /\ scrollController'.currentPhase
                        = scrollController.currentPhase]_vars

\* C13 witness: Space was pressed when less than one step remained and took
\* the page to the end of the range, where the clamp applies.
C13_Witness ==
    /\ ev.type = "keydown" /\ ev.key = " "
    /\ scrollController.scrollProgress = ProgressScale
    /\ scrollController.currentPhase = COMPLETE

\* C14: in every reachable state, after any sequence of wheel, touch,
\* keyboard, snap, setScrollProgress(v) for any v, and animateToProgress
\* steps, ScrollController.scrollProgress and SceneManager.scrollProgress
\* are both within [0, 1].
C14_ProgressInRange ==
    /\ scrollController.scrollProgress \in 0..ProgressScale
    /\ sceneManager.scrollProgress \in 0..ProgressScale

\* C15: for a command that is neither in the terminal's command table nor
\* a case of the app's switch, the terminal shows the error
\* 'Command not found: <command>' and then the help listing, and nothing
\* is thrown.
C15_UnknownCommandShowsErrorAndHelp ==
    [][(/\ ev'.type = "keydown" /\ ev'.key = "Enter"
        /\ ev'.run.delivered # <<>>
        /\ ev'.run.delivered[1] \notin appCommands)
       => LET output == terminalUI'.output
              length == Len(output)
          IN  /\ ev'.run.errors = <<>>
              /\ length >= 2
              /\ output[length - 1] = [kind |-> "commandNotFound",
                                       arg |-> ev'.run.delivered[1]]
              /\ output[length].kind \in {"help", "appHelp"}]_vars

====
